---- MODULE Spec2Model ----
(***************************************************************************)
(* MediSim3D: the three heart visualizations                               *)
(*   heart                 src/simulations/heart/logic.js                  *)
(*   cardiac-cross-section src/simulations/cardiac-cross-section/logic.js  *)
(*   cardiac-cycle         src/simulations/cardiac-cycle/logic.js          *)
(*                                                                         *)
(* Numbers.  A JavaScript Number is modelled in fixed point:               *)
(*   coordinates, scale factors and sines  n / Unit                        *)
(*   the clock `time`                      n / TimePerSec seconds          *)
(*   angles                                n / RadUnit radians             *)
(* The inputs are chosen so that the deformer's products are exact; the    *)
(* sine is a rational approximation of Math.sin with values in [-1, 1].    *)
(***************************************************************************)
EXTENDS Integers, Sequences, FiniteSets, TLC

VARIABLES
    viz,             \* which of the three pages is running
    sphere,          \* the vertices SphereGeometry produced (kept for reference)
    position,        \* ventricleGeo.attributes.position, a flat x,y,z array
    i,               \* the deformation loop's index
    passes,          \* completed runs of the deformation loop over `position`
    firstPass,       \* `position` as it was when the first run completed
    bpm,             \* let bpm
    time,            \* let time
    ticks,           \* animate() calls so far
    ventriclesScale, \* ventricles.scale
    atriumScale,     \* atrium.scale / atria.scale
    intersects,      \* the raycaster's answer in the latest animate() call
    dom,             \* the page elements the script writes to
    hoveredObj,      \* let hoveredObj (cardiac-cycle)
    emissive,        \* material.emissive of the cardiac-cycle materials
    isWireframe,     \* let isWireframe (heart, cross-section)
    isFlowing,       \* let isFlowing (cardiac-cycle)
    outcome,         \* how the latest animate() call ended
    pendingFrames    \* animate() invocations requested and not yet run

vars == <<viz, sphere, position, i, passes, firstPass, bpm, time, ticks,
          ventriclesScale, atriumScale, intersects, dom, hoveredObj, emissive,
          isWireframe, isFlowing, outcome, pendingFrames>>

deformVars == <<sphere, position, i, passes, firstPass>>
animVars == <<bpm, time, ticks, ventriclesScale, atriumScale, intersects, dom,
              hoveredObj, emissive, isWireframe, isFlowing, outcome,
              pendingFrames>>

Viz == {"heart", "cross", "cycle"}
Sinusoid == {"heart", "cross"}

----------------------------------------------------------------------------
(* Fixed point *)

Unit == 10000
TimePerSec == 6000
RadUnit == 600

Abs(n) == IF n < 0 THEN -n ELSE n

\* a / b rounded toward zero
Quot(a, b) == IF a >= 0 THEN a \div b ELSE -((-a) \div b)

\* the product of two Unit-scaled numbers
Mul(a, b) == Quot(a * b, Unit)

----------------------------------------------------------------------------
(* Bounds *)

MaxVerts == 2
MaxPasses == 2
MaxTicks == 5
MaxHits == 2

----------------------------------------------------------------------------
(* The Shape Deformer *)

\* BufferAttribute: itemSize 3, vertex k (from 0) at array[3k], [3k+1], [3k+2]
Count(a) == Len(a) \div 3
GetX(a, k) == a[3 * k + 1]
GetY(a, k) == a[3 * k + 2]
GetZ(a, k) == a[3 * k + 3]
SetX(a, k, v) == [a EXCEPT ![3 * k + 1] = v]
SetY(a, k, v) == [a EXCEPT ![3 * k + 2] = v]
SetXYZ(a, k, x, y, z) ==
    [a EXCEPT ![3 * k + 1] = x, ![3 * k + 2] = y, ![3 * k + 3] = z]

Taper == 2000
Stretch == 12000

\* a slip: the taper reads the stretched y
HeartBodyStretchedY(a, k) ==
    LET x == GetX(a, k)
        y == GetY(a, k)
        y_mod == Mul(y, Stretch)
    IN  SetY(SetX(a, k, Mul(x, Unit - Mul(y_mod, Taper))), k, y_mod)

\* one iteration of the heart / cross-section loop
HeartBody(a, k) ==
    LET x == GetX(a, k)
        y == GetY(a, k)
        z == GetZ(a, k)
        y_mod == Mul(y, Stretch)
    IN  SetY(SetX(a, k, Mul(x, Unit - Mul(y, Taper))), k, y_mod)

ApexTaper == 2500
BackFlatten == 8000

\* one iteration of the cardiac-cycle loop
CycleBody(a, k) ==
    LET x0 == GetX(a, k)
        y == GetY(a, k)
        z0 == GetZ(a, k)
        x == IF y < 0 THEN Mul(x0, Unit + Mul(y, ApexTaper)) ELSE x0
        z1 == IF y < 0 THEN Mul(z0, Unit + Mul(y, ApexTaper)) ELSE z0
        z == IF z1 < 0 THEN Mul(z1, BackFlatten) ELSE z1
    IN  SetXYZ(a, k, x, y, z)

\* a copying deformer: every read comes from the untouched sphere
LoopBodyFromSphere(v, a, k) ==
    LET b == IF v \in Sinusoid THEN HeartBody(sphere, k) ELSE CycleBody(sphere, k)
    IN  SetXYZ(a, k, GetX(b, k), GetY(b, k), GetZ(b, k))

\* the loop body reads and writes the one buffer
LoopBody(v, a, k) ==
    IF v \in Sinusoid THEN HeartBody(a, k) ELSE CycleBody(a, k)

\* the whole loop, from index k on
RECURSIVE DeformFrom(_, _, _)
DeformFrom(v, a, k) ==
    IF k < Count(a) THEN DeformFrom(v, LoopBody(v, a, k), k + 1) ELSE a

\* coordinates a sphere vertex is drawn from (tenths; the products stay exact)
CoordXZ == {-12000, 0, 8000}
CoordY == {-10000, 0, 5000}
Vertex == {<<x, y, z>> : x \in CoordXZ, y \in CoordY, z \in CoordXZ}

RECURSIVE Flatten(_)
Flatten(vs) ==
    IF vs = <<>> THEN <<>> ELSE Head(vs) \o Flatten(Tail(vs))

Spheres ==
    UNION {{Flatten(s) : s \in [1..n -> Vertex]} : n \in 1..MaxVerts}

----------------------------------------------------------------------------
(* The deformation loop as a process of its own.  The scripts run it once;  *)
(* DeformAgain is the second call the idempotence property speaks of.       *)

DeformStep ==
    /\ i < Count(position)
    /\ position' = LoopBody(viz, position, i)
    /\ i' = i + 1
    /\ passes' = IF i' = Count(position) THEN passes + 1 ELSE passes
    /\ firstPass' = IF i' = Count(position) /\ passes = 0
                    THEN position' ELSE firstPass
    /\ UNCHANGED <<viz, sphere>>
    /\ UNCHANGED animVars

DeformAgain ==
    /\ i = Count(position)
    /\ passes < MaxPasses
    /\ i' = 0
    /\ UNCHANGED <<viz, sphere, position, passes, firstPass>>
    /\ UNCHANGED animVars

----------------------------------------------------------------------------
(* Strings and numbers *)

Undefined == "undefined"

DigitVal ==
    [c \in {"0", "1", "2", "3", "4", "5", "6", "7", "8", "9"} |->
        CASE c = "0" -> 0 [] c = "1" -> 1 [] c = "2" -> 2 [] c = "3" -> 3
          [] c = "4" -> 4 [] c = "5" -> 5 [] c = "6" -> 6 [] c = "7" -> 7
          [] c = "8" -> 8 [] c = "9" -> 9]

RECURSIVE Digits(_)
Digits(s) ==
    IF s = <<>> THEN 0
    ELSE 10 * Digits(SubSeq(s, 1, Len(s) - 1)) + DigitVal[s[Len(s)]]

\* the value of a decimal integer string (what a range input's value always is)
StringToNumber(s) ==
    IF s # <<>> /\ Head(s) = "-" THEN -Digits(Tail(s)) ELSE Digits(s)

\* a value of `bpm`: a Number, or the String the heart pages store
Number(n) == [type |-> "number", num |-> n, str |-> <<>>]
String(s) == [type |-> "string", num |-> 0, str |-> s]

\* ToNumber, as `bpm / 60` applies it
ToNumber(v) == IF v.type = "number" THEN v.num ELSE StringToNumber(v.str)

\* parseInt on a decimal integer string
parseInt(s) == Number(StringToNumber(s))

\* e.target.value of the BPM slider; the listeners take whatever the input
\* element holds (its range is set in the page, not in the script)
SliderValues == {<<"0">>, <<"1", "8", "0">>}

----------------------------------------------------------------------------
(* Math.sin, on an angle in RadUnit-ths of a radian, in Unit-ths            *)
(* (Bhaskara's rational approximation; exact at 0, pi/6, pi/2)              *)

Pi == 1885

Sin(a) ==
    LET r == a % (2 * Pi)
        h == IF r < Pi THEN r ELSE r - Pi
        q == h * (Pi - h)
        v == ((Unit \div 10) * q) \div ((5 * Pi * Pi - 4 * q) \div 160)
    IN  IF r < Pi THEN v ELSE -v

----------------------------------------------------------------------------
(* The Beat Animator *)

\* 0.01, the clock's step per animate() call, in TimePerSec-ths of a second
TickDelta == 60

\* time * freq, as an angle
Angle(t, freq) == (t * freq * RadUnit) \div TimePerSec

\* time += 0.01 * (bpm / 60)
SinusoidClock(t, b) == t + Quot(TickDelta * ToNumber(b), 60)

\* time += 0.01
CycleClock(t, b) == t + TickDelta

AmpV == 500
AmpA == 300
BaseFrequency == 10

\* a slip: a digit lost in the amplitude, 0.5 for 0.05
SinusoidScaleWide(t) == Unit + Mul(Sin(Angle(t, BaseFrequency)), 10 * AmpV)

\* const scale = 1 + Math.sin(time * 10) * 0.05
SinusoidScale(t) == Unit + Mul(Sin(Angle(t, BaseFrequency)), AmpV)

\* ventricles.scale.set(scale, scale, scale)
SinusoidVentricles(t) ==
    <<SinusoidScale(t), SinusoidScale(t), SinusoidScale(t)>>

\* a slip: the atrium beats in phase with the ventricles
SinusoidAtriumInPhase(t) ==
    <<Unit + Mul(Sin(Angle(t, BaseFrequency)), AmpA), Unit, Unit>>

\* atrium.scale.set(1 + Math.sin(time * 10 + 1) * 0.03, 1, 1)
SinusoidAtrium(t) ==
    <<Unit + Mul(Sin(Angle(t, BaseFrequency) + RadUnit), AmpA), Unit, Unit>>

\* time * beatSpeed, beatSpeed = (bpm / 60) * Math.PI * 2
BeatPhase(t, b) == (Quot(t * ToNumber(b), 60) * (2 * Pi)) \div TimePerSec

\* const beat = Math.sin(time * beatSpeed * 2)
Beat(t, b) == Sin(2 * BeatPhase(t, b))

StepAmount == 500

\* const contraction = 1 + (beat > 0.5 ? 0.05 : 0)
Contraction(beat) == Unit + (IF beat > Unit \div 2 THEN StepAmount ELSE 0)

Smoothing == 2000

\* a slip: the interpolation overshoots
LerpOvershoot(v, target, alpha) ==
    [k \in 1..3 |-> v[k] + Mul(target[k] - v[k], Unit + alpha)]

\* Vector3.lerp: this.x += (v.x - this.x) * alpha, and so for y, z
Lerp(v, target, alpha) ==
    [k \in 1..3 |-> v[k] + Mul(target[k] - v[k], alpha)]

CycleVentricles(v, beat) ==
    Lerp(v, <<Contraction(beat), Contraction(beat), Contraction(beat)>>,
         Smoothing)

CycleAtria(v, beat) ==
    Lerp(v, <<12000 + (IF beat < 0 THEN AmpA ELSE 0), 7000, Unit>>, Smoothing)

\* the angle the beat's sine is taken of
PhaseAngle ==
    IF viz \in Sinusoid THEN Angle(time, BaseFrequency)
    ELSE BeatPhase(time, bpm)

----------------------------------------------------------------------------
(* The scene: heartGroup.children, their userData and materials *)

\* heartGroup.children, in the order of the heartGroup.add calls
ChildList(v) ==
    IF v \in Sinusoid THEN <<"ventricles", "atrium", "aorta">>
    ELSE <<"ventricles", "atria", "aorta", "pulmo", "svc", "flowSystem">>

\* object.userData.name
UserDataName(v, obj) ==
    CASE obj = "ventricles" -> "Ventricles"
      [] obj \in {"atrium", "atria"} -> "Atria"
      [] obj = "aorta" -> "Aorta"
      [] obj = "pulmo" -> "Pulmonary Artery"
      [] obj = "svc" -> "Vena Cava"
      [] OTHER -> Undefined

\* object.userData.info (heart, cross-section)
UserDataInfo(v, obj) ==
    CASE obj = "ventricles" -> "Pumps blood to lungs and body."
      [] obj = "atrium" -> "Receives blood from veins."
      [] obj = "aorta" -> "Main artery carrying oxygenated blood."
      [] OTHER -> Undefined

\* object.userData.desc (cardiac-cycle)
UserDataDesc(v, obj) ==
    CASE obj = "ventricles" -> "Muscular chambers pumping blood to lungs and body."
      [] obj = "atria" -> "Receives blood returning to heart."
      [] obj = "aorta" -> "Main artery distributing oxygenated blood."
      [] obj = "pulmo" -> "Carries deoxygenated blood to lungs."
      [] obj = "svc" -> "Returns deoxygenated blood from body."
      [] OTHER -> Undefined

\* object.material (cardiac-cycle)
Material(obj) ==
    CASE obj \in {"ventricles", "atria"} -> "tissueMaterial"
      [] obj = "aorta" -> "arteryMat"
      [] obj \in {"pulmo", "svc"} -> "veinMat"
      [] OTHER -> "particleMat"

\* material.emissive exists: MeshPhysicalMaterial has it, PointsMaterial has not
HasEmissive(mat) == mat # "particleMat"
EmissiveMaterials == {"tissueMaterial", "arteryMat", "veinMat"}

Glow == 3342336
NoGlow == 0

\* the members of S, in the order they have in list
RECURSIVE Listed(_, _)
Listed(list, S) ==
    IF list = <<>> THEN <<>>
    ELSE (IF Head(list) \in S THEN <<Head(list)>> ELSE <<>>) \o Listed(Tail(list), S)

\* raycaster.intersectObjects(heartGroup.children): the objects the ray meets,
\* nearest first.  Any child may be the nearest; the script reads no further
\* than intersects[0], and the ones behind it are listed in children order.
HitListsOf(list, n) ==
    LET objs == {list[k] : k \in 1..Len(list)} IN
    {<<>>} \cup
    UNION {{<<first>> \o Listed(list, behind) :
               behind \in {S \in SUBSET (objs \ {first}) : Cardinality(S) < n}} :
           first \in objs}

SinusoidHitLists == HitListsOf(ChildList("heart"), MaxHits)
CycleHitLists == HitListsOf(ChildList("cycle"), MaxHits)
HitLists(v) == IF v \in Sinusoid THEN SinusoidHitLists ELSE CycleHitLists

----------------------------------------------------------------------------
(* Hover-pick annotation *)

\* what an element holds before the script writes to it (the label and the
\* tooltip start as the page styles them; the script shows them with opacity 1)
Markup == "(as the page's markup and styles have it)"
Prompt == <<"Hover over parts of the model to identify them.">>
NullObj == "null"

\* the global `event` while animate() runs: no event is being dispatched
WindowEvent == Undefined

HeartDom ==
    [bpmDisplay |-> <<Markup>>, cursor |-> Markup, tooltipOpacity |-> Markup,
     tooltipText |-> Markup, anatomyText |-> <<Markup>>,
     anatomyBackground |-> Markup]

\* heart: the hover block of animate(); the result is the page and how the
\* block ended
HeartHover(hits, d) ==
    IF Len(hits) > 0
    THEN LET object == hits[1] IN
         IF UserDataName("heart", object) # Undefined
         THEN LET shown == [d EXCEPT !.cursor = "pointer",
                                     !.tooltipOpacity = "1",
                                     !.tooltipText = UserDataName("heart", object)]
              IN  IF WindowEvent = Undefined
                  THEN [dom |-> shown, outcome |-> "TypeError"]
                  ELSE [dom |-> [shown EXCEPT
                                   !.anatomyText =
                                       <<"<strong>", UserDataName("heart", object),
                                         "</strong><br>", UserDataInfo("heart", object)>>,
                                   !.anatomyBackground = "rgba(14, 165, 233, 0.2)"],
                        outcome |-> "rendered"]
         ELSE [dom |-> d, outcome |-> "rendered"]
    ELSE [dom |-> [d EXCEPT !.cursor = "default",
                            !.tooltipOpacity = "0",
                            !.anatomyBackground = "rgba(255,255,255,0.1)",
                            !.anatomyText = Prompt],
          outcome |-> "rendered"]

CrossDom ==
    [bpmDisplay |-> <<Markup>>, cursor |-> Markup, tooltipOpacity |-> Markup,
     tooltipText |-> Markup, anatomyText |-> <<Markup>>,
     anatomyBackground |-> Markup, anatomyBorder |-> Markup]

\* a slip: the else branch hides the tooltip and leaves the panel as it is
CrossHoverLazyReset(hits, d) ==
    IF Len(hits) > 0
    THEN LET object == hits[1] IN
         IF UserDataName("cross", object) # Undefined
         THEN [dom |-> [d EXCEPT
                          !.cursor = "pointer",
                          !.tooltipOpacity = "1",
                          !.tooltipText = UserDataName("cross", object),
                          !.anatomyText =
                              <<"<strong>", UserDataName("cross", object),
                                "</strong><br>", UserDataInfo("cross", object)>>,
                          !.anatomyBackground = "rgba(34, 211, 238, 0.2)",
                          !.anatomyBorder = "1px solid #22d3ee"],
               outcome |-> "rendered"]
         ELSE [dom |-> d, outcome |-> "rendered"]
    ELSE [dom |-> [d EXCEPT !.cursor = "default", !.tooltipOpacity = "0"],
          outcome |-> "rendered"]

\* cardiac-cross-section: the hover block of animate()
CrossHover(hits, d) ==
    IF Len(hits) > 0
    THEN LET object == hits[1] IN
         IF UserDataName("cross", object) # Undefined
         THEN [dom |-> [d EXCEPT
                          !.cursor = "pointer",
                          !.tooltipOpacity = "1",
                          !.tooltipText = UserDataName("cross", object),
                          !.anatomyText =
                              <<"<strong>", UserDataName("cross", object),
                                "</strong><br>", UserDataInfo("cross", object)>>,
                          !.anatomyBackground = "rgba(34, 211, 238, 0.2)",
                          !.anatomyBorder = "1px solid #22d3ee"],
               outcome |-> "rendered"]
         ELSE [dom |-> d, outcome |-> "rendered"]
    ELSE [dom |-> [d EXCEPT !.cursor = "default",
                            !.tooltipOpacity = "0",
                            !.anatomyBackground = "rgba(255,255,255,0.05)",
                            !.anatomyBorder = "none",
                            !.anatomyText = Prompt],
          outcome |-> "rendered"]

CycleDom ==
    [labelTitle |-> Markup, labelDesc |-> Markup, labelOpacity |-> Markup,
     labelAt |-> "origin"]

\* hoveredObj.material.emissive.setHex(hex), when the material has emissive
SetEmissive(em, obj, hex) ==
    IF HasEmissive(Material(obj)) THEN [em EXCEPT ![Material(obj)] = hex] ELSE em

\* a slip: the new target is lit before the old one is reset
CycleHoverGlowFirst(hits, h, d, em) ==
    IF Len(hits) > 0
    THEN LET object == hits[1] IN
         IF h # object
         THEN LET lit == SetEmissive(em, object, Glow)
              IN  [hoveredObj |-> object,
                   emissive |-> IF h # NullObj THEN SetEmissive(lit, h, NoGlow)
                                ELSE lit,
                   dom |-> IF UserDataName("cycle", object) # Undefined
                           THEN [d EXCEPT
                                   !.labelTitle = UserDataName("cycle", object),
                                   !.labelDesc = UserDataDesc("cycle", object),
                                   !.labelOpacity = "1",
                                   !.labelAt = object]
                           ELSE d]
         ELSE [hoveredObj |-> h, emissive |-> em, dom |-> d]
    ELSE IF h # NullObj
         THEN [hoveredObj |-> NullObj,
               emissive |-> SetEmissive(em, h, NoGlow),
               dom |-> [d EXCEPT !.labelOpacity = "0"]]
         ELSE [hoveredObj |-> h, emissive |-> em, dom |-> d]

\* cardiac-cycle: the hover block of animate(); the result is hoveredObj, the
\* label and the materials' emissive colours
CycleHover(hits, h, d, em) ==
    IF Len(hits) > 0
    THEN LET object == hits[1] IN
         IF h # object
         THEN LET reset == IF h # NullObj THEN SetEmissive(em, h, NoGlow) ELSE em
              IN  [hoveredObj |-> object,
                   emissive |-> SetEmissive(reset, object, Glow),
                   dom |-> IF UserDataName("cycle", object) # Undefined
                           THEN [d EXCEPT
                                   !.labelTitle = UserDataName("cycle", object),
                                   !.labelDesc = UserDataDesc("cycle", object),
                                   !.labelOpacity = "1",
                                   !.labelAt = object]
                           ELSE d]
         ELSE [hoveredObj |-> h, emissive |-> em, dom |-> d]
    ELSE IF h # NullObj
         THEN [hoveredObj |-> NullObj,
               emissive |-> SetEmissive(em, h, NoGlow),
               dom |-> [d EXCEPT !.labelOpacity = "0"]]
         ELSE [hoveredObj |-> h, emissive |-> em, dom |-> d]

----------------------------------------------------------------------------
(* Initial states *)

\* the script's top-level declarations, up to the first animate() call
AnimInit ==
    /\ bpm = IF viz \in Sinusoid THEN Number(60) ELSE Number(75)
    /\ time = 0
    /\ ticks = 0
    /\ ventriclesScale = <<Unit, Unit, Unit>>
    /\ atriumScale = IF viz \in Sinusoid THEN <<11000, 6000, Unit>>
                     ELSE <<12000, 7000, Unit>>
    /\ intersects = <<>>
    /\ dom = CASE viz = "heart" -> HeartDom
               [] viz = "cross" -> CrossDom
               [] OTHER -> CycleDom
    /\ hoveredObj = NullObj
    /\ emissive = [m \in EmissiveMaterials |-> NoGlow]
    /\ isWireframe = FALSE
    /\ isFlowing = TRUE
    /\ outcome = "none"

\* the page as the script leaves it: the sphere deformed once, the first
\* animate() call about to run
SampleSphere == <<8000, 5000, -12000, -12000, -10000, 8000>>

Init ==
    /\ viz \in Viz
    /\ sphere = SampleSphere
    /\ position = DeformFrom(viz, sphere, 0)
    /\ i = Count(sphere)
    /\ passes = 1
    /\ firstPass = position
    /\ AnimInit
    /\ pendingFrames = 1

\* the page as the deformation loop starts
InitDeform ==
    /\ viz \in Viz
    /\ sphere \in Spheres
    /\ position = sphere
    /\ i = 0
    /\ passes = 0
    /\ firstPass = <<>>
    /\ AnimInit
    /\ pendingFrames = 0

----------------------------------------------------------------------------
(* Event listeners *)

\* bpm-slider 'input'
SliderInput ==
    \E s \in SliderValues :
        /\ bpm' = IF viz \in Sinusoid THEN String(s) ELSE parseInt(s)
        /\ dom' = IF viz \in Sinusoid THEN [dom EXCEPT !.bpmDisplay = s] ELSE dom
        /\ UNCHANGED <<viz, time, ticks, ventriclesScale, atriumScale, intersects,
                       hoveredObj, emissive, isWireframe, isFlowing, outcome,
                       pendingFrames>>
        /\ UNCHANGED deformVars

\* toggle-wireframe 'click' (heart, cross-section)
ToggleWireframe ==
    /\ viz \in Sinusoid
    /\ isWireframe' = ~isWireframe
    /\ UNCHANGED <<viz, bpm, time, ticks, ventriclesScale, atriumScale, intersects,
                   dom, hoveredObj, emissive, isFlowing, outcome, pendingFrames>>
    /\ UNCHANGED deformVars

\* btn-flow 'click' (cardiac-cycle)
ToggleFlow ==
    /\ viz = "cycle"
    /\ isFlowing' = ~isFlowing
    /\ UNCHANGED <<viz, bpm, time, ticks, ventriclesScale, atriumScale, intersects,
                   dom, hoveredObj, emissive, isWireframe, outcome, pendingFrames>>
    /\ UNCHANGED deformVars

----------------------------------------------------------------------------
(* animate() *)

\* a slip: the next frame is requested at the end of animate(), after the
\* hover block, so a call that throws there requests none
HeartTickSchedulesLast ==
    /\ viz = "heart"
    /\ pendingFrames > 0
    /\ ticks < MaxTicks
    /\ ticks' = ticks + 1
    /\ \E hits \in HitLists(viz) :
        LET hover == HeartHover(hits, dom) IN
        /\ intersects' = hits
        /\ pendingFrames' = IF hover.outcome = "TypeError"
                            THEN pendingFrames - 1
                            ELSE (pendingFrames - 1) + 1
        /\ time' = SinusoidClock(time, bpm)
        /\ ventriclesScale' = SinusoidVentricles(time')
        /\ atriumScale' = SinusoidAtrium(time')
        /\ dom' = hover.dom
        /\ outcome' = hover.outcome
    /\ UNCHANGED <<viz, bpm, hoveredObj, emissive, isWireframe, isFlowing>>
    /\ UNCHANGED deformVars

\* heart
HeartTick ==
    /\ viz = "heart"
    /\ pendingFrames > 0
    /\ ticks < MaxTicks
    /\ ticks' = ticks + 1
    /\ \E hits \in HitLists(viz) :
        LET hover == HeartHover(hits, dom) IN
        /\ intersects' = hits
        /\ pendingFrames' = (pendingFrames - 1) + 1
        /\ time' = SinusoidClock(time, bpm)
        /\ ventriclesScale' = SinusoidVentricles(time')
        /\ atriumScale' = SinusoidAtrium(time')
        /\ dom' = hover.dom
        /\ outcome' = hover.outcome
    /\ UNCHANGED <<viz, bpm, hoveredObj, emissive, isWireframe, isFlowing>>
    /\ UNCHANGED deformVars

\* cardiac-cross-section
CrossTick ==
    /\ viz = "cross"
    /\ pendingFrames > 0
    /\ ticks < MaxTicks
    /\ ticks' = ticks + 1
    /\ \E hits \in HitLists(viz) :
        LET hover == CrossHover(hits, dom) IN
        /\ intersects' = hits
        /\ pendingFrames' = (pendingFrames - 1) + 1
        /\ time' = SinusoidClock(time, bpm)
        /\ ventriclesScale' = SinusoidVentricles(time')
        /\ atriumScale' = SinusoidAtrium(time')
        /\ dom' = hover.dom
        /\ outcome' = hover.outcome
    /\ UNCHANGED <<viz, bpm, hoveredObj, emissive, isWireframe, isFlowing>>
    /\ UNCHANGED deformVars

\* cardiac-cycle
CycleTick ==
    /\ viz = "cycle"
    /\ pendingFrames > 0
    /\ ticks < MaxTicks
    /\ ticks' = ticks + 1
    /\ \E hits \in HitLists(viz) :
        LET hover == CycleHover(hits, hoveredObj, dom, emissive) IN
        /\ intersects' = hits
        /\ pendingFrames' = (pendingFrames - 1) + 1
        /\ time' = CycleClock(time, bpm)
        /\ ventriclesScale' = CycleVentricles(ventriclesScale, Beat(time', bpm))
        /\ atriumScale' = CycleAtria(atriumScale, Beat(time', bpm))
        /\ hoveredObj' = hover.hoveredObj
        /\ emissive' = hover.emissive
        /\ dom' = hover.dom
        /\ outcome' = "rendered"
    /\ UNCHANGED <<viz, bpm, isWireframe, isFlowing>>
    /\ UNCHANGED deformVars

----------------------------------------------------------------------------
(* Specifications *)

Next ==
    \/ SliderInput
    \/ ToggleWireframe
    \/ ToggleFlow
    \/ HeartTick
    \/ CrossTick
    \/ CycleTick

Spec == Init /\ [][Next]_vars

\* The browser runs a requested frame callback at its next repaint: an
\* animate() call that stays requested is eventually made, whatever the
\* listeners do in between.
SpecLive ==
    /\ Spec
    /\ WF_ticks(HeartTick)
    /\ WF_ticks(CrossTick)
    /\ WF_ticks(CycleTick)

NextDeform ==
    \/ DeformStep
    \/ DeformAgain

SpecDeform == InitDeform /\ [][NextDeform]_vars

----------------------------------------------------------------------------
(* Properties *)

\* vertex k of a flat array
VertexAt(a, k) == <<GetX(a, k), GetY(a, k), GetZ(a, k)>>

\* the latest animate() call found a named mesh first along the ray
FirstHitNamed ==
    /\ ticks > 0
    /\ Len(intersects) > 0
    /\ UserDataName(viz, intersects[1]) # Undefined

\* C1: heart and cross-section: while the loop runs over the sphere and when it
\* has run once, every vertex it has passed is (x*(1 - y*0.2), y*1.2, z) of
\* the sphere's vertex at the same index, with the sphere's own y in the x
\* term; the others are untouched, and the vertex count is the sphere's.
C1_DeformerRule ==
    (viz \in Sinusoid /\ (passes = 0 \/ (passes = 1 /\ i \in {0, Count(position)})))
    => /\ Len(position) = Len(sphere)
       /\ \A k \in 0..(Count(sphere) - 1) :
            LET x == GetX(sphere, k)
                y == GetY(sphere, k)
                z == GetZ(sphere, k)
            IN  VertexAt(position, k) =
                    IF passes = 1 \/ k < i
                    THEN <<Mul(x, Unit - Mul(y, 2000)), Mul(y, 12000), z>>
                    ELSE <<x, y, z>>

C1_Witness ==
    /\ viz = "heart"
    /\ passes = 1
    /\ i = Count(position)
    /\ Count(position) = 2
    /\ GetX(sphere, 1) # 0
    /\ GetY(sphere, 1) # 0
    /\ GetX(position, 1) # GetX(sphere, 1)
    /\ GetY(position, 1) # GetY(sphere, 1)

\* the clock the beat phase is taken from: `time` where bpm is accumulated into
\* it, time * (bpm / 60) where bpm multiplies it
C2_PhaseClock ==
    IF viz \in Sinusoid THEN time ELSE Quot(time * ToNumber(bpm), 60)

\* C2: every animate() call advances the clock that drives the beat phase by
\* 0.01 * (bpm / 60), and a slider input changes bpm alone: the clock and the
\* phase angle stay as they are.
C2_ClockAdvance ==
    [][/\ (ticks' = ticks + 1) =>
              60 * (C2_PhaseClock' - C2_PhaseClock) = TickDelta * ToNumber(bpm)
       /\ (bpm' # bpm) =>
              /\ C2_PhaseClock' = C2_PhaseClock
              /\ PhaseAngle' = PhaseAngle]_vars

\* C3: heart and cross-section: after every animate() call each component of
\* ventricles.scale is 1 + 0.05 * sin(time * 10), within [0.95, 1.05].
C3_VentricleScaleBounded ==
    (viz \in Sinusoid /\ ticks > 0)
    => \A k \in 1..3 :
         /\ ventriclesScale[k] = Unit + Mul(Sin(Angle(time, 10)), 500)
         /\ ventriclesScale[k] >= Unit - 500
         /\ ventriclesScale[k] <= Unit + 500

C3_Witness ==
    /\ viz \in Sinusoid
    /\ ticks > 1
    /\ ToNumber(bpm) > 0
    /\ ventriclesScale[1] > Unit + 490

\* C4: an animate() call made while bpm is zero or negative still advances the
\* beat phase strictly (the input was clamped to a positive minimum).
C4_NonPositiveBpmClamped ==
    [][(ticks' = ticks + 1 /\ ToNumber(bpm) <= 0) => PhaseAngle' > PhaseAngle]_vars

\* C5: when the latest animate() call found a named mesh first along the ray,
\* the annotation surface shows that mesh's name and description: the
\* anatomy panel (heart, cross-section) or the visible label (cardiac-cycle).
C5_FirstHitAnnotated ==
    FirstHitNamed
    => IF viz \in Sinusoid
       THEN dom.anatomyText =
                <<"<strong>", UserDataName(viz, intersects[1]), "</strong><br>",
                  UserDataInfo(viz, intersects[1])>>
       ELSE /\ dom.labelTitle = UserDataName(viz, intersects[1])
            /\ dom.labelDesc = UserDataDesc(viz, intersects[1])
            /\ dom.labelOpacity = "1"

C7_NoTickFatal == ticks > 0 => outcome = "rendered"

C9_UniformScales ==
    (viz \in Sinusoid /\ ticks > 0)
    => LET v == Unit + Mul(Sin(Angle(time, 10)), 500)
           a == Unit + Mul(Sin(Angle(time, 10) + RadUnit), 300)
       IN  /\ ventriclesScale = <<v, v, v>>
           /\ atriumScale = <<a, a, a>>

\* C9, amended: the ventricles' scale is (v, v, v); the atrium's is (a, 1, 1):
\* the beat stretches the atrium along x alone.
C9_AtriumScaledAlongX ==
    (viz \in Sinusoid /\ ticks > 0)
    => LET v == Unit + Mul(Sin(Angle(time, 10)), 500)
           a == Unit + Mul(Sin(Angle(time, 10) + RadUnit), 300)
       IN  /\ ventriclesScale = <<v, v, v>>
           /\ atriumScale = <<a, Unit, Unit>>

C9_Witness ==
    /\ viz \in Sinusoid
    /\ ticks > 0
    /\ atriumScale[1] > Unit + 200
    /\ atriumScale[2] = Unit
    /\ ventriclesScale[1] # Unit
    /\ ventriclesScale[1] # atriumScale[1]

\* C10: cardiac-cycle: the ventricles' scale stays within [1, 1.05], and every
\* animate() call moves each component by 0.2 of its gap to the target, the
\* target being 1.05 when sin(phase * 2) > 0.5 and 1 otherwise.
C10_LubDub ==
    /\ [](viz = "cycle" =>
            \A k \in 1..3 : /\ ventriclesScale[k] >= Unit
                            /\ ventriclesScale[k] <= Unit + 500)
    /\ [][(viz = "cycle" /\ ticks' = ticks + 1) =>
            LET target == IF Sin(2 * BeatPhase(time', bpm)) > 5000
                          THEN Unit + 500 ELSE Unit
            IN  \A k \in 1..3 :
                  LET gap == target - ventriclesScale[k]
                      move == ventriclesScale'[k] - ventriclesScale[k]
                  IN  /\ move = Quot(gap * 2, 10)
                      /\ 5 * Abs(move) <= Abs(gap)]_vars

C10_Witness ==
    /\ viz = "cycle"
    /\ ticks > 2
    /\ Beat(time, bpm) <= 5000
    /\ ventriclesScale[1] > Unit
    /\ ventriclesScale[1] < Unit + 500

\* C11: in every visualization exactly one animate() call is requested at
\* every moment: each call takes the one that was requested and requests one
\* again, also when it throws, and no listener requests or cancels any; and
\* under any interleaving of the slider and toggle events with the calls, the
\* calls keep coming one after another, up to any number of them.
C11_LoopSustained ==
    /\ [](pendingFrames = 1)
    /\ [][\/ ticks' = ticks /\ pendingFrames' = pendingFrames
          \/ ticks' = ticks + 1 /\ pendingFrames = 1 /\ pendingFrames' = 1]_vars
    /\ <>(ticks = MaxTicks)

C11_Witness ==
    /\ viz = "heart"
    /\ ticks = MaxTicks
    /\ outcome = "TypeError"
    /\ bpm.type = "string"
    /\ isWireframe
    /\ pendingFrames = 1

\* C12: cardiac-cycle: after every animate() call, a label shown at opacity 1
\* carries the name and the description of the object hoveredObj holds; it
\* never shows those of a mesh that is no longer the first hit.
C12_LabelMatchesHover ==
    (viz = "cycle" /\ ticks > 0 /\ dom.labelOpacity = "1")
    => /\ hoveredObj # NullObj
       /\ dom.labelTitle = UserDataName("cycle", hoveredObj)
       /\ dom.labelDesc = UserDataDesc("cycle", hoveredObj)

\* the materials of the cardiac-cycle scene's objects
CycleMaterials == {Material(ChildList("cycle")[k]) : k \in 1..Len(ChildList("cycle"))}

\* the material's emissive colour is the hover glow
Glows(m) == HasEmissive(m) /\ emissive[m] = Glow

\* C13 as stated: cardiac-cycle: after every animate() call a material glows
\* if and only if it is the material of the object hoveredObj holds, and none
\* glows when hoveredObj is null.
C13_GlowIffHovered ==
    (viz = "cycle" /\ ticks > 0)
    => \A m \in CycleMaterials :
         Glows(m) <=> (hoveredObj # NullObj /\ Material(hoveredObj) = m)

\* C13: cardiac-cycle: after every animate() call a material glows if and only
\* if it is the material of the object hoveredObj holds and has an emissive
\* colour; none glows when hoveredObj is null or is the particle system, whose
\* material has no emissive colour.  Objects sharing a material glow together.
C13_GlowIffHoveredEmissive ==
    (viz = "cycle" /\ ticks > 0)
    => /\ \A m \in CycleMaterials :
            Glows(m) <=> /\ hoveredObj # NullObj
                         /\ Material(hoveredObj) = m
                         /\ HasEmissive(m)
       /\ \A m \in EmissiveMaterials : emissive[m] \in {Glow, NoGlow}

\* the pointer went from the atria onto the particle system: no material glows
C13_Witness ==
    /\ viz = "cycle"
    /\ hoveredObj = "flowSystem"
    /\ dom.labelTitle = "Atria"
    /\ dom.labelOpacity = "1"
    /\ \A m \in EmissiveMaterials : emissive[m] = NoGlow

====
